---- MODULE Spec2Model ----
(***************************************************************************)
(* A model of the CHIP-8 interpreter of this repository: the Cpu's         *)
(* fetch / decode / execute / timer cycle (cpu.rs), Memory (memory.rs),    *)
(* the Instruction decoder (instruction.rs), the ProgramCounter            *)
(* (program_counter.rs), the Renderer's sprite compositor (renderer.rs)    *)
(* and the Keyboard adapter behind its single-value channel (keyboard.rs). *)
(*                                                                         *)
(* Representation.  Option<T> is a sequence: <<>> is None, <<v>> is        *)
(* Some(v).  The 4096-byte array Memory::data is held sparsely: `data` is  *)
(* the function from the addresses whose byte is not the one Memory::new   *)
(* left there (the font at 0, zeroes above it) to their byte, and every    *)
(* other address reads as Memory::new left it.  The 32x64 boolean grid     *)
(* Renderer::display_content2d is held as the set of the <<y, x>> whose    *)
(* cell is true.  A panic is recorded in `panicked` (its message) and      *)
(* stops every action; what the handler had already written stays written.*)
(***************************************************************************)
EXTENDS Integers, Sequences, FiniteSets, TLC

VARIABLES
    general_registers,       \* Registers::general_registers : [u8; 16]
    i,                       \* Registers::i : u16
    delay_timer,             \* Registers::delay_timer : u8
    sound_timer,             \* Registers::sound_timer : u8
    ptr,                     \* ProgramCounter::ptr : u16
    stack_pointer,           \* Registers::stack_pointer : Option<u8>
    stack,                   \* Cpu::stack : [u16; 16]
    data,                    \* Memory::data : [u8; 4096] (sparse: what differs from Memory::new)
    display_content2d,       \* Renderer::display_content2d (set of lit <<y, x>>)
    pressed_keys,            \* Keyboard::pressed_keys : HashSet<u8>
    key_receiver,            \* the value held by the single-value channel
    host_keys,               \* host side: the keys held down on the host's keyboard
    time_since_timer_update, \* Option<Instant>, as the milliseconds elapsed since it
    audio,                   \* the last call made on Audio: <<>>, <<"play", n>>, <<"stop">>
    instruction,             \* the Instruction last decoded by evaluate_instructions
    wait_loop,               \* TRUE while control is inside exec_wait_until_key_press's loop
    key_pressed,             \* the local key_pressed of exec_wait_until_key_press
    panicked,                \* "" or the message of the panic that ended the emulation
    call_sites               \* history: the program counter of each CALL not yet returned from

vars == <<general_registers, i, delay_timer, sound_timer, ptr, stack_pointer, stack,
          data, display_content2d, pressed_keys, key_receiver, host_keys,
          time_since_timer_update, audio, instruction, wait_loop, key_pressed, panicked,
          call_sites>>

-----------------------------------------------------------------------------
(* Program constants *)

MEMORY_SIZE == 4096
SCREEN_WIDTH == 64
SCREEN_HEIGHT == 32
SPRITE_WIDTH == 8
CARRY_REG_ADDRESS == 15
STACK_SIZE == 16
PROGRAM_START == 512
FRAME_DIVISOR == 60
KEY_F == 15

None == <<>>
Some(v) == <<v>>

U8 == 0..255
U8Wrap(n) == n % 256
U16Wrap(n) == n % 65536

-----------------------------------------------------------------------------
(* Bit operations on bytes *)

Pow2(k) == CASE k = 0 -> 1 [] k = 1 -> 2 [] k = 2 -> 4 [] k = 3 -> 8
             [] k = 4 -> 16 [] k = 5 -> 32 [] k = 6 -> 64 [] k = 7 -> 128

Bit(b, k) == (b \div Pow2(k)) % 2

RECURSIVE BytePack(_, _)
\* the byte whose bit k is bits[k], from bit k upward
BytePack(bits, k) == IF k > 7 THEN 0 ELSE bits[k] * Pow2(k) + BytePack(bits, k + 1)

BitOr(a, b) == BytePack([k \in 0..7 |-> IF Bit(a, k) = 1 \/ Bit(b, k) = 1 THEN 1 ELSE 0], 0)
BitAnd(a, b) == BytePack([k \in 0..7 |-> IF Bit(a, k) = 1 /\ Bit(b, k) = 1 THEN 1 ELSE 0], 0)
BitXor(a, b) == BytePack([k \in 0..7 |-> IF Bit(a, k) # Bit(b, k) THEN 1 ELSE 0], 0)

\* mutant: the subtraction wraps around
Mutant_saturating_sub(a, b) == (a - b + 256) % 256

\* u8::saturating_sub
saturating_sub(a, b) == IF a >= b THEN a - b ELSE 0

-----------------------------------------------------------------------------
(* u4::U4x2 and instruction.rs *)

\* U4x2::left / U4x2::right : the high and the low nibble of a packed byte
left(byte) == byte \div 16
right(byte) == byte % 16

\* Instruction::new : the two fetched bytes, each as a pair of nibbles
InstructionNew(instruction_bytes) == <<instruction_bytes[1], instruction_bytes[2]>>

first_nibble(ins) == left(ins[1])
second_nibble(ins) == right(ins[1])
third_nibble(ins) == left(ins[2])
fourth_nibble(ins) == right(ins[2])
nibbles_lo(ins) == <<first_nibble(ins), second_nibble(ins), third_nibble(ins), fourth_nibble(ins)>>
InsX(ins) == second_nibble(ins)
InsY(ins) == third_nibble(ins)
InsKk(ins) == ins[2]
\* mutant: nnn takes the first nibble for its high bits
Mutant_InsNnn(ins) == left(ins[1]) * 256 + ins[2]

\* nnn = (second_nibble << 8) | bytes[1].packed: the low byte of the shifted nibble
\* is 0, so the or adds the packed second byte
InsNnn(ins) == second_nibble(ins) * 256 + ins[2]

-----------------------------------------------------------------------------
(* memory.rs *)

sprites ==
    <<240, 144, 144, 144, 240,   32,  96,  32,  32, 112,
      240,  16, 240, 128, 240,  240,  16, 240,  16, 240,
      144, 144, 240,  16,  16,  240, 128, 240,  16, 240,
      240, 128, 240, 144, 240,  240,  16,  32,  64,  64,
      240, 144, 240, 144, 240,  240, 144, 240,  16, 240,
      240, 144, 240, 144, 144,  224, 144, 224, 144, 224,
      240, 128, 128, 128, 240,  224, 144, 144, 144, 224,
      240, 128, 240, 128, 240,  240, 128, 240, 128, 128>>

\* the byte Memory::new leaves at address a: the array is zeroed, then
\* initialize_sprites writes the font at 0
InitialByte(a) == IF a < Len(sprites) THEN sprites[a + 1] ELSE 0

MemRead(mem, a) == IF a \in DOMAIN mem THEN mem[a] ELSE InitialByte(a)

\* read_bytes succeeds iff the slice start..start+count lies in the array
ReadInBounds(start, count) == start + count <= MEMORY_SIZE
read_bytes(mem, start, count) == [k \in 1..count |-> MemRead(mem, start + k - 1)]

\* mutant: the bounds test of write_bytes is off by one
Mutant_WriteInBounds(start, replacement) == start + Len(replacement) <= MEMORY_SIZE + 1

\* write_bytes panics unless start + replacement.len() <= data.len()
WriteInBounds(start, replacement) == start + Len(replacement) <= MEMORY_SIZE
write_bytes(mem, start, replacement) ==
    LET written == start..(start + Len(replacement) - 1)
        byte(a) == IF a \in written THEN replacement[a - start + 1] ELSE MemRead(mem, a)
        dom == {a \in (DOMAIN mem) \cup written : byte(a) # InitialByte(a)}
    IN  [a \in dom |-> byte(a)]

\* Memory::new : nothing differs from what it builds
MemoryNew == <<>>

\* Memory::load_program
load_program(mem, program) == write_bytes(mem, PROGRAM_START, program)

-----------------------------------------------------------------------------
(* program_counter.rs *)

\* mutant: the return address is the CALL itself
Mutant_peek(p) == p

peek(p) == p + 2
increment(p) == p + 2
\* mutant: skip_instruction moves as far as increment
Mutant_skip_instruction(p) == p + 2

skip_instruction(p) == p + 4
\* mutant: set_to_address accepts every address
Mutant_AddressAccepted(address) == address >= 0

\* set_to_address asserts address >= 0x200
AddressAccepted(address) == address >= PROGRAM_START

-----------------------------------------------------------------------------
(* renderer.rs *)

\* the screen cells a sprite of `rows` rows drawn at (target_x, target_y) reaches:
\* the loop of draw_sprite skips every cell off the screen
\* mutant: the cells beyond the right and bottom edges are not skipped
Mutant_SpriteCells(rows, target_x, target_y) ==
    {<<(target_y % SCREEN_HEIGHT) + sprite_y,
       (target_x % SCREEN_WIDTH) + SPRITE_WIDTH - 1 - bit_index>> :
        sprite_y \in 0..(rows - 1), bit_index \in 0..(SPRITE_WIDTH - 1)}

SpriteCells(rows, target_x, target_y) ==
    LET normalized_x == target_x % SCREEN_WIDTH
        normalized_y == target_y % SCREEN_HEIGHT
    IN  {cell \in {<<normalized_y + sprite_y, normalized_x + SPRITE_WIDTH - 1 - bit_index>> :
                        sprite_y \in 0..(rows - 1), bit_index \in 0..(SPRITE_WIDTH - 1)} :
            ~(cell[2] >= SCREEN_WIDTH \/ cell[1] >= SCREEN_HEIGHT)}

\* the sprite bit that draw_sprite tests for screen cell <<pixel_y, pixel_x>>
SpriteBitSet(sprite, target_x, target_y, cell) ==
    LET sprite_y == cell[1] - (target_y % SCREEN_HEIGHT)
        bit_index == (target_x % SCREEN_WIDTH) + SPRITE_WIDTH - 1 - cell[2]
    IN  Bit(sprite[sprite_y + 1], bit_index) # 0

\* the value draw_sprite stores in a reached cell
DrawnPixel(pixel, bit_set) == bit_set

\* mutant: a lit pixel under a set sprite bit counts as erased
Mutant_PixelErased(pixel, bit_set) == pixel /\ bit_set

\* whether draw_sprite counts a reached cell as erased
PixelErased(pixel, bit_set) == pixel /\ pixel # bit_set

draw_sprite(display, sprite, target_x, target_y) ==
    LET cells == SpriteCells(Len(sprite), target_x, target_y)
        bit(c) == SpriteBitSet(sprite, target_x, target_y, c)
    IN  [display |-> (display \ cells) \cup {c \in cells : DrawnPixel(c \in display, bit(c))},
         pixel_erased |-> \E c \in cells : PixelErased(c \in display, bit(c))]

\* mutant: the clear leaves the grid as it is
Mutant_clear_display(display) == display

clear_display(display) == {}

-----------------------------------------------------------------------------
(* keyboard.rs *)

is_valid_key_code(key) == key <= KEY_F
to_chip_8_keys(keys) == {k \in keys : is_valid_key_code(k)}

\* mutant: is_key_pressed_or_held answers whether any key is pressed
Mutant_is_key_pressed_or_held(keys, chip_8_key) == keys # {}

\* is_key_pressed_or_held, after its update
is_key_pressed_or_held(keys, chip_8_key) == chip_8_key \in keys

\* mutant: get_pressed_key answers key 0 whenever some key is pressed
Mutant_get_pressed_key(keys) == IF keys = {} THEN {} ELSE {0}

\* get_pressed_key, after its update: the keys pressed_keys.iter().next() may yield,
\* any element of the HashSet ({} stands for None)
get_pressed_key(keys) == keys

\* mutant: the released keys of the latest value are not removed
Mutant_update_pressed_keys(keys, receiver) ==
    IF receiver = None THEN keys ELSE keys \cup to_chip_8_keys(receiver[1].pressed)

\* update_pressed_keys: the channel's latest value, when there is one, is applied
update_pressed_keys(keys, receiver) ==
    IF receiver = None THEN keys
    ELSE (keys \cup to_chip_8_keys(receiver[1].pressed)) \ to_chip_8_keys(receiver[1].released)

-----------------------------------------------------------------------------
(* cpu.rs: the timer step of run_cycle *)

\* the milliseconds elapsed() reports once `passed` more have gone by; the first
\* cycle stores Instant::now() and reads it back at once
ElapsedMillis(passed) ==
    IF time_since_timer_update = None THEN 0 ELSE time_since_timer_update[1] + passed

elapsed_frames(passed) == ElapsedMillis(passed) \div FRAME_DIVISOR

TimerFires(passed) == elapsed_frames(passed) >= 1

\* `elapsed_frames as u8`
FramesAsU8(frames) == frames % 256

\* progress_timer_registers
DelayAfterTimers(passed) ==
    IF TimerFires(passed) /\ delay_timer > 0
    THEN saturating_sub(delay_timer, FramesAsU8(elapsed_frames(passed)))
    ELSE delay_timer

SoundAfterTimers(passed) ==
    IF TimerFires(passed) /\ sound_timer > 0
    THEN saturating_sub(sound_timer, FramesAsU8(elapsed_frames(passed)))
    ELSE sound_timer

AudioAfterTimers(passed) ==
    IF ~TimerFires(passed) THEN audio
    ELSE IF sound_timer > 0 THEN <<"play", sound_timer>> ELSE <<"stop">>

InstantAfterTimers(passed) ==
    IF TimerFires(passed) THEN Some(0) ELSE Some(ElapsedMillis(passed))

\* the timer step alone, for the handlers that leave both timers as it left them
TimerStep(passed) ==
    /\ delay_timer' = DelayAfterTimers(passed)
    /\ sound_timer' = SoundAfterTimers(passed)
    /\ audio' = AudioAfterTimers(passed)
    /\ time_since_timer_update' = InstantAfterTimers(passed)

-----------------------------------------------------------------------------
(* cpu.rs: fetch and dispatch *)

\* a cycle starts unless the emulation has panicked or is inside the key-wait loop
CanRunCycle == panicked = "" /\ ~wait_loop

FetchInBounds == ReadInBounds(ptr, 2)

Fetched == InstructionNew(read_bytes(data, ptr, 2))

\* the arm of evaluate_instructions' match that a decoded instruction takes; the
\* arms are tried in the order of the source
MatchArm(n1, n2, n3, n4) ==
    CASE n1 = 0 ->
            IF n2 = 0 /\ n3 = 0 /\ n4 = 0 THEN "ignore_instruction"
            ELSE IF n2 = 0 /\ n3 = 14 /\ n4 = 0 THEN "exec_clear_display"
            ELSE IF n2 = 0 /\ n3 = 14 /\ n4 = 14 THEN "exec_return_from_subroutine"
            ELSE "unexpected instruction"
      [] n1 = 1 -> "exec_jump"
      [] n1 = 2 -> "exec_call_subroutine"
      [] n1 = 3 -> "exec_skip_if_equal_kk"
      [] n1 = 4 -> "exec_skip_if_not_equal_kk"
      [] n1 = 5 -> "exec_skip_if_equal_register"
      [] n1 = 6 -> "exec_set_register"
      [] n1 = 7 -> "exec_add_kk"
      [] n1 = 8 ->
            IF n4 = 0 THEN "exec_copy_register_value"
            ELSE IF n4 = 2 THEN "exec_and"
            ELSE IF n4 = 1 THEN "exec_or"
            ELSE IF n4 = 3 THEN "exec_xor"
            ELSE IF n4 = 4 THEN "exec_add"
            ELSE IF n4 = 5 THEN "exec_sub"
            ELSE IF n4 = 6 THEN "exec_shift_right"
            ELSE IF n4 = 7 THEN "exec_subn"
            ELSE IF n4 = 14 THEN "exec_shift_left"
            ELSE "unexpected instruction"
      [] n1 = 9 -> "exec_skip_if_not_equal_register"
      [] n1 = 10 -> "exec_set_register_i_to_nnn"
      [] n1 = 11 -> "exec_move_program_counter"
      [] n1 = 12 -> "exec_generate_random_number"
      [] n1 = 13 ->
            IF n4 = 0 THEN "ignore_instruction" ELSE "exec_display_sprite_8xN"
      [] n1 = 14 ->
            IF n3 = 9 /\ n4 = 14 THEN "exec_skip_if_key_pressed"
            ELSE IF n3 = 10 /\ n4 = 1 THEN "exec_skip_if_key_not_pressed"
            ELSE "unexpected instruction"
      [] n1 = 15 ->
            IF n3 = 0 /\ n4 = 7 THEN "exec_set_vx_to_delay_timer"
            ELSE IF n3 = 0 /\ n4 = 10 THEN "exec_wait_until_key_press"
            ELSE IF n3 = 1 /\ n4 = 5 THEN "exec_set_delay_timer"
            ELSE IF n3 = 1 /\ n4 = 8 THEN "exec_set_sound_timer"
            ELSE IF n3 = 1 /\ n4 = 14 THEN "exec_add_vx_to_i"
            ELSE IF n3 = 2 THEN "exec_set_i_to_sprite_address"
            ELSE IF n3 = 3 THEN "exec_store_vx_as_bsd_in_memory"
            ELSE IF n3 = 5 /\ n4 = 5 THEN "exec_store_registers_in_memory"
            ELSE IF n3 = 6 /\ n4 = 5 THEN "exec_load_registers_from_memory"
            ELSE "unexpected instruction"

\* evaluate_instructions matches on nibbles_lo
Handler(ins) ==
    MatchArm(first_nibble(ins), second_nibble(ins), third_nibble(ins), fourth_nibble(ins))

\* a cycle reaches the handler `name`: it can run, the fetch succeeds and the match
\* takes that arm
Dispatches(name) == CanRunCycle /\ FetchInBounds /\ Handler(Fetched) = name

\* run_cycle returns: the handler completed
Returns ==
    /\ instruction' = Some(Fetched)
    /\ panicked' = panicked
    /\ UNCHANGED <<wait_loop, key_pressed, key_receiver, host_keys>>

\* the handler panics with `message`
Panics(message) ==
    /\ instruction' = Some(Fetched)
    /\ panicked' = message
    /\ UNCHANGED <<wait_loop, key_pressed, key_receiver, host_keys>>

\* the register file with register x set to value
SetRegister(regs, x, value) == [regs EXCEPT ![x] = value]

\* mutant: the flag is stored first, so that with x = 0xF the result replaces it
Mutant_SetResultThenFlag(regs, x, result, flag) ==
    [[regs EXCEPT ![CARRY_REG_ADDRESS] = flag] EXCEPT ![x] = result]

\* the register file after a handler stores `result` in Vx and then `flag` in VF
SetResultThenFlag(regs, x, result, flag) ==
    [[regs EXCEPT ![x] = result] EXCEPT ![CARRY_REG_ADDRESS] = flag]


-----------------------------------------------------------------------------
(* Inputs of the model *)

\* the milliseconds that go by between two cycles: none, less than 60, two periods
\* of 60, and 256 of them (the emulation was suspended for a quarter of a minute)
TimeSteps == {0, 40, 130, 15400}

\* the values rand::random() delivers
RandomBytes == {0, 165, 255}

\* the KeysChange values the host sends: key 1 goes down, key 1 goes up, and key 16
\* (a key that is no CHIP-8 key) goes down and up between two sends
KeysChanges ==
    {[pressed |-> {1}, released |-> {}], [pressed |-> {}, released |-> {1}],
     [pressed |-> {16}, released |-> {16}]}

-----------------------------------------------------------------------------
(* cpu.rs: the handlers.  Each action is one run_cycle: the timer step, the   *)
(* fetch, the decoding and the handler the match selects.                     *)

Vx == general_registers[InsX(Fetched)]
Vy == general_registers[InsY(Fetched)]

\* run_cycle's read_bytes(program_counter.address(), 2) panics
fetch_out_of_bounds ==
    /\ CanRunCycle /\ ~FetchInBounds
    /\ \E passed \in TimeSteps :
        /\ TimerStep(passed)
        /\ panicked' = "range end index out of range for slice"
        /\ UNCHANGED <<general_registers, i, ptr, stack_pointer, stack, data,
                       display_content2d, pressed_keys, key_receiver, host_keys,
                       instruction, wait_loop, key_pressed, call_sites>>

unexpected_instruction ==
    /\ Dispatches("unexpected instruction")
    /\ \E passed \in TimeSteps :
        /\ TimerStep(passed)
        /\ Panics("unexpected instruction")
        /\ UNCHANGED <<general_registers, i, ptr, stack_pointer, stack, data,
                       display_content2d, pressed_keys, call_sites>>

ignore_instruction ==
    /\ Dispatches("ignore_instruction")
    /\ \E passed \in TimeSteps :
        /\ TimerStep(passed)
        /\ ptr' = increment(ptr)
        /\ Returns
        /\ UNCHANGED <<general_registers, i, stack_pointer, stack, data,
                       display_content2d, pressed_keys, call_sites>>

exec_return_from_subroutine ==
    /\ Dispatches("exec_return_from_subroutine")
    /\ \E passed \in TimeSteps :
        /\ TimerStep(passed)
        /\ IF stack_pointer = None
           THEN /\ Panics("stack should not be empty")
                /\ UNCHANGED <<ptr, stack_pointer, call_sites>>
           ELSE LET return_address == stack[stack_pointer[1]] IN
                /\ stack_pointer' = IF stack_pointer[1] = 0 THEN None
                                    ELSE Some(stack_pointer[1] - 1)
                /\ call_sites' = SubSeq(call_sites, 1, Len(call_sites) - 1)
                /\ IF AddressAccepted(return_address)
                   THEN ptr' = return_address /\ Returns
                   ELSE ptr' = ptr
                        /\ Panics("stack pointer address should be at least the first program address")
        /\ UNCHANGED <<general_registers, i, stack, data, display_content2d, pressed_keys>>

exec_clear_display ==
    /\ Dispatches("exec_clear_display")
    /\ \E passed \in TimeSteps :
        /\ TimerStep(passed)
        /\ display_content2d' = clear_display(display_content2d)
        /\ ptr' = increment(ptr)
        /\ Returns
        /\ UNCHANGED <<general_registers, i, stack_pointer, stack, data, pressed_keys,
                       call_sites>>

exec_jump ==
    /\ Dispatches("exec_jump")
    /\ \E passed \in TimeSteps :
        /\ TimerStep(passed)
        /\ IF AddressAccepted(InsNnn(Fetched))
           THEN ptr' = InsNnn(Fetched) /\ Returns
           ELSE ptr' = ptr
                /\ Panics("stack pointer address should be at least the first program address")
        /\ UNCHANGED <<general_registers, i, stack_pointer, stack, data,
                       display_content2d, pressed_keys, call_sites>>

\* mutant: a CALL on a stack that is not empty overwrites its top
Mutant_PushedStackPointer(sp) == IF sp = None THEN 0 ELSE sp[1]

\* the stack pointer exec_call_subroutine moves to
PushedStackPointer(sp) == IF sp = None THEN 0 ELSE sp[1] + 1

exec_call_subroutine ==
    /\ Dispatches("exec_call_subroutine")
    /\ \E passed \in TimeSteps :
        /\ TimerStep(passed)
        /\ stack_pointer' = Some(PushedStackPointer(stack_pointer))
        /\ call_sites' = Append(call_sites, ptr)
        /\ IF PushedStackPointer(stack_pointer) >= STACK_SIZE
           THEN /\ Panics("index out of bounds")
                /\ UNCHANGED <<stack, ptr>>
           ELSE /\ stack' = [stack EXCEPT ![PushedStackPointer(stack_pointer)] = peek(ptr)]
                /\ IF AddressAccepted(InsNnn(Fetched))
                   THEN ptr' = InsNnn(Fetched) /\ Returns
                   ELSE ptr' = ptr
                        /\ Panics("stack pointer address should be at least the first program address")
        /\ UNCHANGED <<general_registers, i, data, display_content2d, pressed_keys>>

\* the skip handlers: skip_instruction when `taken`, increment otherwise
SkipIf(name, taken) ==
    /\ Dispatches(name)
    /\ \E passed \in TimeSteps :
        /\ TimerStep(passed)
        /\ ptr' = IF taken THEN skip_instruction(ptr) ELSE increment(ptr)
        /\ Returns
        /\ UNCHANGED <<general_registers, i, stack_pointer, stack, data,
                       display_content2d, pressed_keys, call_sites>>

exec_skip_if_equal_kk == SkipIf("exec_skip_if_equal_kk", Vx = InsKk(Fetched))

exec_skip_if_not_equal_kk == SkipIf("exec_skip_if_not_equal_kk", Vx # InsKk(Fetched))

exec_skip_if_equal_register == SkipIf("exec_skip_if_equal_register", Vx = Vy)

exec_skip_if_not_equal_register == SkipIf("exec_skip_if_not_equal_register", Vx # Vy)

\* the handlers that only write the register file and increment the program counter
RegisterOp(name, registers) ==
    /\ Dispatches(name)
    /\ \E passed \in TimeSteps :
        /\ TimerStep(passed)
        /\ general_registers' = registers
        /\ ptr' = increment(ptr)
        /\ Returns
        /\ UNCHANGED <<i, stack_pointer, stack, data, display_content2d, pressed_keys,
                       call_sites>>

exec_set_register ==
    RegisterOp("exec_set_register",
               SetRegister(general_registers, InsX(Fetched), InsKk(Fetched)))

exec_copy_register_value ==
    RegisterOp("exec_copy_register_value", SetRegister(general_registers, InsX(Fetched), Vy))

exec_or ==
    RegisterOp("exec_or", SetResultThenFlag(general_registers, InsX(Fetched), BitOr(Vx, Vy), 0))

exec_and ==
    RegisterOp("exec_and", SetResultThenFlag(general_registers, InsX(Fetched), BitAnd(Vx, Vy), 0))

exec_xor ==
    RegisterOp("exec_xor", SetResultThenFlag(general_registers, InsX(Fetched), BitXor(Vx, Vy), 0))

\* mutant: a sum of exactly 256 is not reported as an overflow
Mutant_overflowing_add(a, b) == <<U8Wrap(a + b), a + b > 256>>

\* u8::overflowing_add and u8::overflowing_sub : <<result, overflow>>
overflowing_add(a, b) == <<U8Wrap(a + b), a + b > 255>>
overflowing_sub(a, b) == <<U8Wrap(a - b + 256), a < b>>

AddFlag(overflow) == IF overflow THEN 1 ELSE 0

\* mutant: the overflow is stored in VF, as exec_add does
Mutant_AddKk(regs, x, kk) ==
    SetResultThenFlag(regs, x, overflowing_add(regs[x], kk)[1],
                      AddFlag(overflowing_add(regs[x], kk)[2]))

\* exec_add_kk stores the result of overflowing_add and drops the overflow
AddKk(regs, x, kk) == SetRegister(regs, x, overflowing_add(regs[x], kk)[1])

exec_add_kk ==
    RegisterOp("exec_add_kk", AddKk(general_registers, InsX(Fetched), InsKk(Fetched)))

\* mutant: the flag is the borrow, not its negation
Mutant_SubFlag(underflow) == IF underflow THEN 1 ELSE 0

SubFlag(underflow) == IF underflow THEN 0 ELSE 1

exec_add ==
    RegisterOp("exec_add",
               SetResultThenFlag(general_registers, InsX(Fetched),
                                 overflowing_add(Vx, Vy)[1], AddFlag(overflowing_add(Vx, Vy)[2])))

exec_sub ==
    RegisterOp("exec_sub",
               SetResultThenFlag(general_registers, InsX(Fetched),
                                 overflowing_sub(Vx, Vy)[1], SubFlag(overflowing_sub(Vx, Vy)[2])))

exec_subn ==
    RegisterOp("exec_subn",
               SetResultThenFlag(general_registers, InsX(Fetched),
                                 overflowing_sub(Vy, Vx)[1], SubFlag(overflowing_sub(Vy, Vx)[2])))

\* mutant: the shifts read Vx
Mutant_ShiftSource == Vx

\* the source register of the two shifts
ShiftSource == Vy

ShiftRightFlag(source) == source % 2
ShiftLeftFlag(source) == IF source >= 128 THEN 1 ELSE 0

exec_shift_right ==
    RegisterOp("exec_shift_right",
               SetResultThenFlag(general_registers, InsX(Fetched),
                                 ShiftSource \div 2, ShiftRightFlag(ShiftSource)))

exec_shift_left ==
    RegisterOp("exec_shift_left",
               SetResultThenFlag(general_registers, InsX(Fetched),
                                 U8Wrap(ShiftSource * 2), ShiftLeftFlag(ShiftSource)))

exec_generate_random_number ==
    \E random_num \in RandomBytes :
        RegisterOp("exec_generate_random_number",
                   SetRegister(general_registers, InsX(Fetched),
                               BitAnd(random_num, InsKk(Fetched))))

exec_set_register_i_to_nnn ==
    /\ Dispatches("exec_set_register_i_to_nnn")
    /\ \E passed \in TimeSteps :
        /\ TimerStep(passed)
        /\ i' = InsNnn(Fetched)
        /\ ptr' = increment(ptr)
        /\ Returns
        /\ UNCHANGED <<general_registers, stack_pointer, stack, data, display_content2d,
                       pressed_keys, call_sites>>

exec_move_program_counter ==
    /\ Dispatches("exec_move_program_counter")
    /\ \E passed \in TimeSteps :
        /\ TimerStep(passed)
        /\ IF AddressAccepted(InsNnn(Fetched) + general_registers[0])
           THEN ptr' = InsNnn(Fetched) + general_registers[0] /\ Returns
           ELSE ptr' = ptr
                /\ Panics("stack pointer address should be at least the first program address")
        /\ UNCHANGED <<general_registers, i, stack_pointer, stack, data,
                       display_content2d, pressed_keys, call_sites>>

\* the flag exec_display_sprite_8xN stores for draw_sprite's result
CollisionFlag(pixel_erased) == IF pixel_erased THEN 1 ELSE 0

exec_display_sprite_8xN ==
    /\ Dispatches("exec_display_sprite_8xN")
    /\ \E passed \in TimeSteps :
        /\ TimerStep(passed)
        /\ IF ReadInBounds(i, fourth_nibble(Fetched))
           THEN LET sprite == read_bytes(data, i, fourth_nibble(Fetched))
                    drawn == draw_sprite(display_content2d, sprite, Vx, Vy)
                IN  /\ display_content2d' = drawn.display
                    /\ general_registers' =
                           SetRegister(general_registers, CARRY_REG_ADDRESS,
                                       CollisionFlag(drawn.pixel_erased))
                    /\ ptr' = increment(ptr)
                    /\ Returns
           ELSE /\ Panics("range end index out of range for slice")
                /\ UNCHANGED <<display_content2d, general_registers, ptr>>
        /\ UNCHANGED <<i, stack_pointer, stack, data, pressed_keys, call_sites>>


\* the key skips query the keyboard for the low nibble of Vx, which first applies the
\* channel's latest value
KeySkip(name, when_pressed) ==
    /\ Dispatches(name)
    /\ \E passed \in TimeSteps :
        /\ TimerStep(passed)
        /\ pressed_keys' = update_pressed_keys(pressed_keys, key_receiver)
        /\ ptr' = IF is_key_pressed_or_held(pressed_keys', right(Vx)) = when_pressed
                  THEN skip_instruction(ptr) ELSE increment(ptr)
        /\ Returns
        /\ UNCHANGED <<general_registers, i, stack_pointer, stack, data,
                       display_content2d, call_sites>>

exec_skip_if_key_pressed == KeySkip("exec_skip_if_key_pressed", TRUE)

exec_skip_if_key_not_pressed == KeySkip("exec_skip_if_key_not_pressed", FALSE)

exec_set_vx_to_delay_timer ==
    /\ Dispatches("exec_set_vx_to_delay_timer")
    /\ \E passed \in TimeSteps :
        /\ TimerStep(passed)
        /\ general_registers' =
               SetRegister(general_registers, InsX(Fetched), DelayAfterTimers(passed))
        /\ ptr' = increment(ptr)
        /\ Returns
        /\ UNCHANGED <<i, stack_pointer, stack, data, display_content2d, pressed_keys,
                       call_sites>>

exec_set_delay_timer ==
    /\ Dispatches("exec_set_delay_timer")
    /\ \E passed \in TimeSteps :
        /\ delay_timer' = Vx
        /\ sound_timer' = SoundAfterTimers(passed)
        /\ audio' = AudioAfterTimers(passed)
        /\ time_since_timer_update' = InstantAfterTimers(passed)
        /\ ptr' = increment(ptr)
        /\ Returns
        /\ UNCHANGED <<general_registers, i, stack_pointer, stack, data,
                       display_content2d, pressed_keys, call_sites>>

exec_set_sound_timer ==
    /\ Dispatches("exec_set_sound_timer")
    /\ \E passed \in TimeSteps :
        /\ delay_timer' = DelayAfterTimers(passed)
        /\ sound_timer' = Vx
        /\ audio' = AudioAfterTimers(passed)
        /\ time_since_timer_update' = InstantAfterTimers(passed)
        /\ ptr' = increment(ptr)
        /\ Returns
        /\ UNCHANGED <<general_registers, i, stack_pointer, stack, data,
                       display_content2d, pressed_keys, call_sites>>

\* `i += vx as u16` and `(vx * 5) as u16` overflow their type for some operands: a
\* build with overflow checks panics there, a build without them wraps
OverflowChecks == BOOLEAN

exec_add_vx_to_i ==
    /\ Dispatches("exec_add_vx_to_i")
    /\ \E passed \in TimeSteps, checked \in OverflowChecks :
        /\ TimerStep(passed)
        /\ IF i + Vx > 65535 /\ checked
           THEN Panics("attempt to add with overflow") /\ UNCHANGED <<i, ptr>>
           ELSE i' = U16Wrap(i + Vx) /\ ptr' = increment(ptr) /\ Returns
        /\ UNCHANGED <<general_registers, stack_pointer, stack, data, display_content2d,
                       pressed_keys, call_sites>>

\* a sprite is 5 bytes in size; the product is formed in u8
SpriteAddress(vx) == U8Wrap(vx * 5)

exec_set_i_to_sprite_address ==
    /\ Dispatches("exec_set_i_to_sprite_address")
    /\ \E passed \in TimeSteps, checked \in OverflowChecks :
        /\ TimerStep(passed)
        /\ IF Vx * 5 > 255 /\ checked
           THEN Panics("attempt to multiply with overflow") /\ UNCHANGED <<i, ptr>>
           ELSE i' = SpriteAddress(Vx) /\ ptr' = increment(ptr) /\ Returns
        /\ UNCHANGED <<general_registers, stack_pointer, stack, data, display_content2d,
                       pressed_keys, call_sites>>

\* mutant: the tens are not reduced modulo 10
Mutant_bcd_representation(vx) == <<vx \div 100, vx \div 10, vx % 10>>

\* the three bytes exec_store_vx_as_bsd_in_memory writes
bcd_representation(vx) == <<(vx \div 100) % 10, (vx \div 10) % 10, vx % 10>>

\* the handlers that write memory at I, then add `advance` to I
MemoryStore(name, bytes, advance) ==
    /\ Dispatches(name)
    /\ \E passed \in TimeSteps :
        /\ TimerStep(passed)
        /\ IF WriteInBounds(i, bytes)
           THEN /\ data' = write_bytes(data, i, bytes)
                /\ i' = i + advance
                /\ ptr' = increment(ptr)
                /\ Returns
           ELSE /\ Panics("Replacement would exceed destination slice bounds")
                /\ UNCHANGED <<data, i, ptr>>
        /\ UNCHANGED <<general_registers, stack_pointer, stack, display_content2d,
                       pressed_keys, call_sites>>

exec_store_vx_as_bsd_in_memory ==
    MemoryStore("exec_store_vx_as_bsd_in_memory", bcd_representation(Vx), 0)

\* mutant: the range of the slice excludes its end
Mutant_RegistersUpTo(registers, x) == [k \in 1..x |-> registers[k - 1]]

\* &registers[0..=x]
RegistersUpTo(registers, x) == [k \in 1..(x + 1) |-> registers[k - 1]]

exec_store_registers_in_memory ==
    MemoryStore("exec_store_registers_in_memory",
                RegistersUpTo(general_registers, InsX(Fetched)),
                InsX(Fetched) + 1)

exec_load_registers_from_memory ==
    /\ Dispatches("exec_load_registers_from_memory")
    /\ \E passed \in TimeSteps :
        /\ TimerStep(passed)
        /\ IF ReadInBounds(i, 1 + InsX(Fetched))
           THEN LET read_data == read_bytes(data, i, 1 + InsX(Fetched)) IN
                /\ general_registers' =
                       [index \in 0..15 |-> IF index < Len(read_data)
                                            THEN read_data[index + 1]
                                            ELSE general_registers[index]]
                /\ i' = i + Len(read_data)
                /\ ptr' = increment(ptr)
                /\ Returns
           ELSE /\ Panics("range end index out of range for slice")
                /\ UNCHANGED <<general_registers, i, ptr>>
        /\ UNCHANGED <<stack_pointer, stack, data, display_content2d, pressed_keys,
                       call_sites>>

\* exec_wait_until_key_press up to its loop: the cycle does not return yet
exec_wait_until_key_press ==
    /\ Dispatches("exec_wait_until_key_press")
    /\ \E passed \in TimeSteps :
        /\ TimerStep(passed)
        /\ instruction' = Some(Fetched)
        /\ wait_loop' = TRUE
        /\ key_pressed' = None
        /\ UNCHANGED <<general_registers, i, ptr, stack_pointer, stack, data,
                       display_content2d, pressed_keys, key_receiver, host_keys,
                       panicked, call_sites>>

\* the wait is followed for this many milliseconds after the last timer update
MaxWaitMillis == 200

\* one turn of the loop of exec_wait_until_key_press, `passed` milliseconds after the
\* turn before: the loop reads no clock and updates no timer, and the Instant of the
\* last timer update grows older.  get_pressed_key returns the first element the
\* HashSet's iterator yields: any element of the set
wait_loop_iteration ==
    /\ panicked = "" /\ wait_loop
    /\ \E passed \in TimeSteps :
        /\ ElapsedMillis(passed) <= MaxWaitMillis
        /\ time_since_timer_update' = Some(ElapsedMillis(passed))
    /\ pressed_keys' = update_pressed_keys(pressed_keys, key_receiver)
    /\ IF key_pressed # None
       THEN IF ~is_key_pressed_or_held(pressed_keys', key_pressed[1])
            THEN /\ wait_loop' = FALSE
                 /\ key_pressed' = None
                 /\ ptr' = increment(ptr)
                 /\ UNCHANGED general_registers
            ELSE UNCHANGED <<wait_loop, key_pressed, ptr, general_registers>>
       ELSE IF get_pressed_key(pressed_keys') # {}
            THEN \E pressed_key \in get_pressed_key(pressed_keys') :
                    /\ key_pressed' = Some(pressed_key)
                    /\ general_registers' =
                           SetRegister(general_registers, InsX(instruction[1]), pressed_key)
                    /\ UNCHANGED <<wait_loop, ptr>>
            ELSE UNCHANGED <<wait_loop, key_pressed, ptr, general_registers>>
    /\ UNCHANGED <<i, delay_timer, sound_timer, stack_pointer, stack, data,
                   display_content2d, key_receiver, host_keys, audio, instruction,
                   panicked, call_sites>>

-----------------------------------------------------------------------------
(* The host side of the keyboard channel: a send replaces the value the channel   *)
(* holds.  The host reports the changes of its keyboard: a key that goes down was *)
(* up, and a key that goes up was down.                                           *)

\* the keys of the host's keyboard that the model moves
HostKeyboard == {1, 16}

\* a send of one of `changes` by a host whose keyboard has the keys `keyboard`
HostSends(changes, keyboard) ==
    /\ panicked = ""
    /\ \E change \in changes :
        /\ (change.pressed \ change.released) \subseteq (keyboard \ host_keys)
        /\ (change.released \ change.pressed) \subseteq host_keys
        /\ key_receiver' = Some(change)
        /\ host_keys' = (host_keys \cup change.pressed) \ change.released
    /\ UNCHANGED <<general_registers, i, delay_timer, sound_timer, ptr, stack_pointer,
                   stack, data, display_content2d, pressed_keys, time_since_timer_update,
                   audio, instruction, wait_loop, key_pressed, panicked, call_sites>>

host_send_keys == HostSends(KeysChanges, HostKeyboard)

\* a host that moves a second key of the keypad as well
TwoKeysChanges ==
    KeysChanges \cup {[pressed |-> {2}, released |-> {}], [pressed |-> {}, released |-> {2}]}
TwoKeysKeyboard == HostKeyboard \cup {2}

host_send_two_keys == HostSends(TwoKeysChanges, TwoKeysKeyboard)


-----------------------------------------------------------------------------
(* The programs the model loads.  Op and its kin assemble one instruction; a     *)
(* program is the byte sequence load_program writes at 0x200.                    *)

Op(a, b, c, d) == <<a * 16 + b, c * 16 + d>>
OpXkk(a, x, kk) == <<a * 16 + x, kk>>
OpNnn(a, nnn) == <<a * 16 + (nnn \div 256), nnn % 256>>

\* a jump to its own address: the program stays there
Halt(address) == OpNnn(1, address)

\* <<x, y>>: distinct registers, the same register, and the flag register as either
AluRegisters == {<<0, 1>>, <<1, 1>>, <<1, 15>>, <<15, 1>>, <<15, 15>>}
AluBytes == {0, 1, 2, 128, 255}
AluOps == {0, 1, 2, 3, 4, 5, 6, 7, 14}

\* Vx := a; Vy := b; 8xyN
AluPrograms ==
    {OpXkk(6, xy[1], a) \o OpXkk(6, xy[2], b) \o Op(8, xy[1], xy[2], n) \o Halt(518) :
        xy \in AluRegisters, a \in AluBytes, b \in AluBytes, n \in AluOps}

DrawXs == {0, 58, 63, 200}
DrawYs == {0, 31, 45}
DrawRows == {1, 2, 15}
\* between the two draws: nothing, a move one column right, or I pointed at the next
\* sprite byte; then nothing or a clear of the display
DrawBetween ==
    {first \o second : first \in {Op(0, 0, 0, 0), OpXkk(7, 0, 1), OpNnn(10, 529)},
                       second \in {Op(0, 0, 0, 0), Op(0, 0, 14, 0)}}
SpriteData == <<255, 15, 165, 129, 255, 0, 1, 128, 60, 195, 24, 231, 85, 170, 255, 102>>

\* V0 := x; V1 := y; I := the sprite data; draw; `between`; draw again
DrawPrograms ==
    {OpXkk(6, 0, x) \o OpXkk(6, 1, y) \o OpNnn(10, 528) \o Op(13, 0, 1, n)
        \o between \o Op(13, 0, 1, n) \o Halt(526) \o SpriteData :
        x \in DrawXs, y \in DrawYs, n \in DrawRows, between \in DrawBetween}

CallPrograms ==
    { \* 0x200 calls 0x206, which calls 0x20A; both return; then halt
      OpNnn(2, 518) \o Halt(514) \o Op(0, 0, 0, 0) \o OpNnn(2, 522) \o Op(0, 0, 14, 14)
          \o Op(0, 0, 14, 14),
      \* unbounded recursion
      OpNnn(2, 512),
      \* a return with nothing to return to
      Op(0, 0, 14, 14),
      \* a call below the program area
      OpNnn(2, 256),
      \* sixteen nested calls, then sixteen returns
      OpNnn(2, 516) \o Halt(514) \o OpXkk(3, 0, 15) \o OpNnn(1, 524) \o Op(0, 0, 14, 14)
          \o Op(0, 0, 0, 0) \o OpXkk(7, 0, 1) \o OpNnn(2, 516) \o Op(0, 0, 14, 14) }

BcdBytes == {0, 7, 10, 99, 100, 157, 255}

\* Vx := kk; I := nnn; Fx33
BcdProgram(x, kk, nnn) ==
    OpXkk(6, x, kk) \o OpNnn(10, nnn) \o Op(15, x, 3, 3) \o Halt(518)

BcdPrograms ==
    {BcdProgram(0, kk, 768) : kk \in U8}
    \cup {BcdProgram(x, kk, nnn) : x \in {1, 15}, kk \in BcdBytes, nnn \in {512, 4093, 4094}}

\* one program that runs through the remaining handlers
TourProgram ==
    OpXkk(6, 0, 1)          \* 200: V0 := 1
    \o OpXkk(3, 0, 1)       \* 202: skip (V0 = 1)
    \o Op(15, 15, 15, 15)   \* 204: skipped
    \o OpXkk(4, 0, 1)       \* 206: no skip
    \o Op(5, 0, 1, 0)       \* 208: no skip (V0 # V1)
    \o Op(9, 0, 1, 0)       \* 20A: skip
    \o Op(15, 15, 15, 15)   \* 20C: skipped
    \o OpXkk(12, 2, 15)     \* 20E: V2 := random & 0x0F
    \o Op(14, 0, 9, 14)     \* 210: skip if key V0 is pressed
    \o Op(0, 0, 0, 0)       \* 212
    \o Op(14, 0, 10, 1)     \* 214: skip if key V0 is not pressed
    \o Op(0, 0, 0, 0)       \* 216
    \o Op(15, 2, 1, 5)      \* 218: delay_timer := V2
    \o Op(15, 2, 1, 8)      \* 21A: sound_timer := V2
    \o Op(15, 3, 0, 7)      \* 21C: V3 := delay_timer
    \o Op(15, 3, 2, 9)      \* 21E: I := sprite address of V3
    \o Op(15, 0, 1, 14)     \* 220: I += V0
    \o OpNnn(10, 768)       \* 222: I := 0x300
    \o Op(15, 3, 5, 5)      \* 224: store V0..V3
    \o OpNnn(10, 768)       \* 226: I := 0x300
    \o Op(15, 1, 6, 5)      \* 228: load V0..V1
    \o Op(15, 4, 0, 10)     \* 22A: V4 := the next key
    \o Op(8, 0, 0, 3)       \* 22C: V0 := 0
    \o OpNnn(11, 560)       \* 22E: jump to 0x230 + V0
    \o OpNnn(1, 4095)       \* 230: jump to the last byte of memory
    \o Op(15, 15, 15, 15)   \* 232

TourPrograms == {TourProgram, Op(15, 15, 15, 15)}

\* the instructions that read or write memory at I, reaching 1, 2 or 3 bytes
MemoryOps ==
    {Op(13, 0, 1, 1), Op(13, 0, 1, 2), Op(13, 0, 1, 3), Op(15, 0, 3, 3),
     Op(15, 0, 5, 5), Op(15, 1, 5, 5), Op(15, 2, 5, 5),
     Op(15, 0, 6, 5), Op(15, 1, 6, 5), Op(15, 2, 6, 5)}
MemoryEdges == {4094, 4095}

\* V0 := 255; V1 := 7; I := nnn; then either the access at once, or I += V0 first
\* (I is then beyond the end of memory)
MemoryPrograms ==
    {OpXkk(6, 0, 255) \o OpXkk(6, 1, 7) \o OpNnn(10, nnn) \o between \o op \o Halt(522) :
        nnn \in MemoryEdges, between \in {Op(0, 0, 0, 0), Op(15, 0, 1, 14)}, op \in MemoryOps}

\* jumps to and below the start of the program area, and far above it
JumpPrograms ==
    {OpNnn(1, 511), OpNnn(1, 0), OpNnn(11, 511), OpNnn(11, 0),
     OpXkk(6, 0, 255) \o OpNnn(11, 257),
     OpXkk(6, 0, 255) \o OpNnn(11, 256),
     OpXkk(6, 0, 255) \o OpNnn(11, 4095)}

\* V0 := kk; both timers := V0; then V1 := delay_timer for ever
TimerPrograms ==
    {OpXkk(6, 0, kk) \o Op(15, 0, 1, 5) \o Op(15, 0, 1, 8) \o Op(15, 1, 0, 7) \o Halt(518) :
        kk \in {1, 3}}

\* V0 := 1; then key 1 is polled for ever by Ex9E or by ExA1; and Fx0A for ever
KeyPrograms ==
    {OpXkk(6, 0, 1) \o Op(14, 0, 9, 14) \o OpNnn(1, 514) \o OpNnn(1, 514),
     OpXkk(6, 0, 1) \o Op(14, 0, 10, 1) \o OpNnn(1, 514) \o OpNnn(1, 514),
     Op(15, 3, 0, 10) \o OpNnn(1, 512),
     \* V0 := 3; both timers := V0; V1 := the next key; halt
     OpXkk(6, 0, 3) \o Op(15, 0, 1, 5) \o Op(15, 0, 1, 8) \o Op(15, 1, 0, 10) \o Halt(520)}

\* words next to the arms of the match that end in a wildcard or lie between two arms
EdgeWords ==
    {Op(5, 0, 1, 1), Op(5, 0, 1, 15), Op(9, 0, 1, 1), Op(15, 0, 2, 0), Op(15, 0, 2, 10),
     Op(15, 0, 3, 0), Op(15, 0, 3, 4), Op(0, 1, 2, 3), Op(0, 0, 14, 1), Op(8, 0, 1, 8),
     Op(8, 0, 1, 15), Op(14, 0, 0, 0), Op(14, 0, 9, 15), Op(15, 0, 0, 0), Op(15, 0, 5, 6),
     Op(15, 0, 1, 7)}

\* one such word, then a halt at either address it can leave the program counter at
EdgePrograms == {word \o Halt(514) \o Halt(516) : word \in EdgeWords}

\* digits, the largest value whose sprite address fits a byte, and values beyond it
FontBytes == {0, 9, 15, 51, 52, 255}

\* V0 := kk; I := the sprite address of V0
FontPrograms == {OpXkk(6, 0, kk) \o Op(15, 0, 2, 9) \o Halt(516) : kk \in FontBytes}

\* V0 := 255; V1 := 7; VF := 9; I := 0x300; store V0..Vx; I := 0x300; load V0..Vx
RoundTripPrograms ==
    {OpXkk(6, 0, 255) \o OpXkk(6, 1, 7) \o OpXkk(6, 15, 9) \o OpNnn(10, 768)
        \o Op(15, x, 5, 5) \o OpNnn(10, 768) \o Op(15, x, 6, 5) \o Halt(526) :
        x \in {0, 1, 15}}

\* VF := f; Vx := a; Vx += kk
AddKkPrograms ==
    {OpXkk(6, 15, f) \o OpXkk(6, x, a) \o OpXkk(7, x, kk) \o Halt(518) :
        f \in {0, 1}, x \in {0, 14, 15}, a \in {1, 255}, kk \in {0, 1, 255}}

\* V0 := 255; V1 := 241; VF := 1; I := 0xFFF; then I += V0, V1 times: I passes the
\* end of memory and, at the last addition, the largest u16
AddToIPrograms ==
    {OpXkk(6, 0, 255) \o OpXkk(6, 1, 241) \o OpXkk(6, 15, 1) \o OpNnn(10, 4095)
        \o Op(15, 0, 1, 14) \o OpXkk(7, 1, 255) \o OpXkk(3, 1, 0) \o OpNnn(1, 520)
        \o Halt(528)}

\* V0 := a; V1 := b; one of the four register skips; a halt at either landing address
SkipPrograms ==
    {OpXkk(6, 0, a) \o OpXkk(6, 1, b) \o skip \o Halt(518) \o Halt(520) :
        a \in {0, 1}, b \in {0, 1},
        skip \in {OpXkk(3, 0, 1), OpXkk(4, 0, 1), Op(5, 0, 1, 0), Op(9, 0, 1, 0)}}

Programs ==
    AluPrograms \cup DrawPrograms \cup CallPrograms \cup BcdPrograms \cup TourPrograms
        \cup MemoryPrograms \cup JumpPrograms \cup TimerPrograms \cup KeyPrograms
        \cup EdgePrograms \cup FontPrograms \cup RoundTripPrograms \cup AddKkPrograms
        \cup AddToIPrograms \cup SkipPrograms

-----------------------------------------------------------------------------
(* Cpu::new, then load_program_into_memory *)

LoadedCpu(programs) ==
    /\ general_registers = [r \in 0..15 |-> 0]
    /\ i = 0
    /\ delay_timer = 0
    /\ sound_timer = 0
    /\ ptr = PROGRAM_START
    /\ stack_pointer = None
    /\ stack = [s \in 0..(STACK_SIZE - 1) |-> 0]
    /\ \E program \in programs : data = load_program(MemoryNew, program)
    /\ display_content2d = {}
    /\ pressed_keys = {}
    /\ key_receiver = None
    /\ host_keys = {}
    /\ time_since_timer_update = None
    /\ audio = <<>>
    /\ instruction = None
    /\ wait_loop = FALSE
    /\ key_pressed = None
    /\ panicked = ""
    /\ call_sites = <<>>

Init == LoadedCpu(Programs)

Next ==
    \/ fetch_out_of_bounds
    \/ unexpected_instruction
    \/ ignore_instruction
    \/ exec_clear_display
    \/ exec_return_from_subroutine
    \/ exec_jump
    \/ exec_call_subroutine
    \/ exec_skip_if_equal_kk
    \/ exec_skip_if_not_equal_kk
    \/ exec_skip_if_equal_register
    \/ exec_set_register
    \/ exec_add_kk
    \/ exec_copy_register_value
    \/ exec_and
    \/ exec_or
    \/ exec_xor
    \/ exec_add
    \/ exec_sub
    \/ exec_shift_right
    \/ exec_subn
    \/ exec_shift_left
    \/ exec_skip_if_not_equal_register
    \/ exec_set_register_i_to_nnn
    \/ exec_move_program_counter
    \/ exec_generate_random_number
    \/ exec_display_sprite_8xN
    \/ exec_skip_if_key_pressed
    \/ exec_skip_if_key_not_pressed
    \/ exec_set_vx_to_delay_timer
    \/ exec_wait_until_key_press
    \/ wait_loop_iteration
    \/ exec_set_delay_timer
    \/ exec_set_sound_timer
    \/ exec_add_vx_to_i
    \/ exec_set_i_to_sprite_address
    \/ exec_store_vx_as_bsd_in_memory
    \/ exec_store_registers_in_memory
    \/ exec_load_registers_from_memory
    \/ host_send_keys

Spec == Init /\ [][Next]_vars

-----------------------------------------------------------------------------
(* The programs that wait for a key, with a host that moves two keys of the keypad *)

\* V3 := the next key, for ever; and both timers := 3, V1 := the next key, halt
WaitPrograms ==
    {Op(15, 3, 0, 10) \o OpNnn(1, 512),
     OpXkk(6, 0, 3) \o Op(15, 0, 1, 5) \o Op(15, 0, 1, 8) \o Op(15, 1, 0, 10) \o Halt(520)}

InitWait == LoadedCpu(WaitPrograms)

NextWait ==
    \/ exec_set_register
    \/ exec_set_delay_timer
    \/ exec_set_sound_timer
    \/ exec_wait_until_key_press
    \/ wait_loop_iteration
    \/ exec_jump
    \/ host_send_two_keys

SpecWait == InitWait /\ [][NextWait]_vars


-----------------------------------------------------------------------------
(* Vocabulary of the properties *)

\* this step is a cycle that dispatches to handler `name`: the emulation is alive and
\* outside the key-wait loop, the fetch succeeds, the match takes that arm, and the
\* step is not the host's (which alone changes the channel)
CycleOf(name) ==
    /\ panicked = "" /\ ~wait_loop
    /\ FetchInBounds /\ Handler(Fetched) = name
    /\ key_receiver' = key_receiver
    /\ vars' # vars

\* the cycle returned (the handler did not panic)
Completed == panicked' = ""

VF == general_registers[CARRY_REG_ADDRESS]

\* the number of return addresses on the call stack
StackDepth == IF stack_pointer = None THEN 0 ELSE stack_pointer[1] + 1

\* the sprite a Dxyn fetched in this state would read, and the cells it reaches
DrawnSprite == read_bytes(data, i, fourth_nibble(Fetched))
DrawnCells == SpriteCells(fourth_nibble(Fetched), Vx, Vy)
DrawStep == CycleOf("exec_display_sprite_8xN") /\ Completed

-----------------------------------------------------------------------------
(* C1: sprite drawing is XOR compositing: every draw leaves each on-screen target   *)
(* pixel at (its old value XOR the sprite bit).                                     *)
C1_XorCompositing ==
    [][DrawStep =>
          \A cell \in DrawnCells :
              (cell \in display_content2d') =
                  ((cell \in display_content2d) # SpriteBitSet(DrawnSprite, Vx, Vy, cell))]_vars

(* C2: a draw reports a collision exactly when some on-screen target pixel was true *)
(* before the draw and is false after it, and the Dxyn handler stores the report in *)
(* VF as 1 or 0.                                                                    *)
C2_CollisionIffPixelErased ==
    [][DrawStep =>
          LET erased == \E cell \in DrawnCells :
                            cell \in display_content2d /\ cell \notin display_content2d'
              result == draw_sprite(display_content2d, DrawnSprite, Vx, Vy).pixel_erased
          IN  /\ result = erased
              /\ VF' = IF result THEN 1 ELSE 0]_vars

\* a draw has just erased a pixel and reported it
C2_Witness ==
    /\ panicked = "" /\ instruction # None
    /\ Handler(instruction[1]) = "exec_display_sprite_8xN"
    /\ VF = 1
    /\ display_content2d # {}

(* C3: a draw that immediately follows a clear of the display reports no collision: *)
(* VF is 0 after it, whatever the sprite and the coordinates.                       *)
C3_NoCollisionAfterClear ==
    [][(/\ instruction # None
        /\ Handler(instruction[1]) = "exec_clear_display"
        /\ DrawStep) => VF' = 0]_vars

\* a clear, then a draw that lit pixels, in consecutive instructions
C3_Witness ==
    /\ panicked = "" /\ instruction # None
    /\ Handler(instruction[1]) = "exec_display_sprite_8xN"
    /\ ptr >= PROGRAM_START + 4
    /\ read_bytes(data, ptr - 2, 2) = instruction[1]
    /\ Handler(read_bytes(data, ptr - 4, 2)) = "exec_clear_display"
    /\ display_content2d # {}
    /\ VF = 0

(* C4: a RETURN that matches a CALL executed at program counter P leaves the        *)
(* program counter at P + 2 and the stack as deep as it was before that CALL,       *)
(* nested calls included.                                                           *)
C4_ReturnToCallPlusTwo ==
    /\ [](panicked = "" => StackDepth = Len(call_sites))
    /\ [][(CycleOf("exec_return_from_subroutine") /\ Completed) =>
             /\ ptr' = call_sites[Len(call_sites)] + 2
             /\ StackDepth' = Len(call_sites) - 1]_vars

\* the return from the sixteenth nested call
C4_Witness ==
    /\ panicked = "" /\ instruction # None
    /\ Handler(instruction[1]) = "exec_return_from_subroutine"
    /\ Len(call_sites) = STACK_SIZE - 1
    /\ ptr = 528

(* C5: while the emulation runs the call stack holds 0..16 return addresses; a CALL *)
(* with fewer than 16 stacked succeeds, a CALL with 16 stacked aborts, a RETURN     *)
(* with none stacked aborts, and after an abort nothing executes any more.          *)
C5_StackBounds ==
    /\ [](panicked = "" => StackDepth \in 0..STACK_SIZE)
    /\ [][(CycleOf("exec_call_subroutine") /\ StackDepth < STACK_SIZE
              /\ AddressAccepted(InsNnn(Fetched)))
            => (Completed /\ StackDepth' = StackDepth + 1)]_vars
    /\ [][(CycleOf("exec_call_subroutine") /\ StackDepth = STACK_SIZE) => ~Completed]_vars
    /\ [][(CycleOf("exec_return_from_subroutine") /\ StackDepth = 0) => ~Completed]_vars
    /\ [][panicked # "" => vars' = vars]_vars

\* the seventeenth nested call has aborted
C5_Witness ==
    /\ panicked = "index out of bounds"
    /\ Len(call_sites) = STACK_SIZE + 1


\* this step is a cycle that completes the register operation `name`
AluStep(name) == CycleOf(name) /\ Completed

(* C6: ADD (8xy4) leaves VF = 1 if Vx + Vy > 255 and 0 otherwise and, for x # 0xF,  *)
(* Vx = (Vx + Vy) mod 256; for x = 0xF the register holds the flag.                 *)
C6_AddCarry ==
    [][AluStep("exec_add") =>
          /\ VF' = IF Vx + Vy > 255 THEN 1 ELSE 0
          /\ InsX(Fetched) # CARRY_REG_ADDRESS =>
                 general_registers'[InsX(Fetched)] = (Vx + Vy) % 256]_vars

\* 0xFF + 0x01 has given 0x00 with the flag set
C6_Witness ==
    /\ panicked = "" /\ instruction = Some(Op(8, 0, 1, 4))
    /\ ptr = 518
    /\ read_bytes(data, 512, 4) = OpXkk(6, 0, 255) \o OpXkk(6, 1, 1)
    /\ general_registers[0] = 0 /\ general_registers[1] = 1 /\ VF = 1

(* C7: SUB (8xy5) leaves VF = 1 iff Vx >= Vy and, for x # 0xF, Vx = (Vx - Vy) mod   *)
(* 256; SUBN (8xy7) leaves VF = 1 iff Vy >= Vx and, for x # 0xF, Vx = (Vy - Vx) mod *)
(* 256.                                                                             *)
C7_SubNotBorrow ==
    [][/\ AluStep("exec_sub") =>
             /\ VF' = IF Vx >= Vy THEN 1 ELSE 0
             /\ InsX(Fetched) # CARRY_REG_ADDRESS =>
                    general_registers'[InsX(Fetched)] = (Vx - Vy) % 256
       /\ AluStep("exec_subn") =>
             /\ VF' = IF Vy >= Vx THEN 1 ELSE 0
             /\ InsX(Fetched) # CARRY_REG_ADDRESS =>
                    general_registers'[InsX(Fetched)] = (Vy - Vx) % 256]_vars

\* 0x01 - 0x02 has given 0xFF with the flag clear
C7_Witness ==
    /\ panicked = "" /\ instruction = Some(Op(8, 0, 1, 5))
    /\ ptr = 518
    /\ read_bytes(data, 512, 4) = OpXkk(6, 0, 1) \o OpXkk(6, 1, 2)
    /\ general_registers[0] = 255 /\ general_registers[1] = 2 /\ VF = 0

(* C8: the shifts take Vy as their source: SHR (8xy6) leaves VF = Vy mod 2 and, for *)
(* x # 0xF, Vx = Vy div 2; SHL (8xyE) leaves VF = bit 7 of Vy and, for x # 0xF,     *)
(* Vx = (2 * Vy) mod 256; Vy is the value before the instruction.                   *)
C8_ShiftFromVy ==
    [][/\ AluStep("exec_shift_right") =>
             /\ VF' = Vy % 2
             /\ InsX(Fetched) # CARRY_REG_ADDRESS =>
                    general_registers'[InsX(Fetched)] = Vy \div 2
       /\ AluStep("exec_shift_left") =>
             /\ VF' = Vy \div 128
             /\ InsX(Fetched) # CARRY_REG_ADDRESS =>
                    general_registers'[InsX(Fetched)] = (2 * Vy) % 256]_vars

\* SHL of V1 = 0xFF into V0 = 2: V0 holds 0xFE and the flag the bit shifted out
C8_Witness ==
    /\ panicked = "" /\ instruction = Some(Op(8, 0, 1, 14))
    /\ ptr = 518
    /\ read_bytes(data, 512, 4) = OpXkk(6, 0, 2) \o OpXkk(6, 1, 255)
    /\ general_registers[0] = 254 /\ general_registers[1] = 255 /\ VF = 1

(* C9: BCD store (Fx33) with I + 2 < 4096 completes and leaves the hundreds, tens   *)
(* and ones digits of Vx in memory[I], memory[I+1], memory[I+2], every other byte   *)
(* of memory, I and all general registers unchanged.                                *)
C9_BcdStore ==
    [][(CycleOf("exec_store_vx_as_bsd_in_memory") /\ i + 2 < MEMORY_SIZE) =>
          /\ Completed
          /\ \A k \in 0..2 : MemRead(data', i + k) \in 0..9
          /\ 100 * MemRead(data', i) + 10 * MemRead(data', i + 1) + MemRead(data', i + 2) = Vx
          /\ \A a \in ((DOMAIN data) \cup (DOMAIN data')) \ {i, i + 1, i + 2} :
                 MemRead(data', a) = MemRead(data, a)
          /\ i' = i
          /\ general_registers' = general_registers]_vars

\* 157 has been stored as 1, 5, 7
C9_Witness ==
    /\ panicked = "" /\ instruction = Some(Op(15, 0, 3, 3))
    /\ general_registers[0] = 157 /\ i = 768
    /\ read_bytes(data, 768, 3) = <<1, 5, 7>>


-----------------------------------------------------------------------------
(* The timers *)

\* this step is a run_cycle: the emulation is alive and outside the key-wait loop,
\* and the step is not the host's
RunCycleStep ==
    /\ panicked = "" /\ ~wait_loop
    /\ key_receiver' = key_receiver
    /\ vars' # vars

\* max(0, n)
AtLeastZero(n) == IF n >= 0 THEN n ELSE 0

(* C11: the timers stay within 0..255 and never move upward except by the           *)
(* instruction that sets them (Fx15 for the delay timer, Fx18 for the sound timer): *)
(* no elapsed-frame count makes a timer wrap below 0 to a large value, and a timer  *)
(* that is 0 stays 0 until it is set again.                                         *)
C11_TimerSaturation ==
    /\ [](delay_timer \in U8 /\ sound_timer \in U8)
    /\ [][~CycleOf("exec_set_delay_timer") => delay_timer' <= delay_timer]_vars
    /\ [][~CycleOf("exec_set_sound_timer") => sound_timer' <= sound_timer]_vars
    /\ [][(delay_timer = 0 /\ ~CycleOf("exec_set_delay_timer")) => delay_timer' = 0]_vars
    /\ [][(sound_timer = 0 /\ ~CycleOf("exec_set_sound_timer")) => sound_timer' = 0]_vars

\* both timers were set to 5 and have decayed to 0, and the program has gone on
C11_Witness ==
    /\ panicked = "" /\ general_registers[2] = 5
    /\ ptr = 554
    /\ delay_timer = 0 /\ sound_timer = 0

(* C12: a timer update that fires with F >= 1 elapsed frames leaves delay_timer at  *)
(* max(0, delay_timer - F) and sound_timer at max(0, sound_timer - F), for every F, *)
(* F > 255 included.                                                                *)
C12_SubtractElapsedFrames ==
    [][\A passed \in TimeSteps :
          (RunCycleStep /\ TimerStep(passed) /\ elapsed_frames(passed) >= 1) =>
              /\ delay_timer' = AtLeastZero(delay_timer - elapsed_frames(passed))
              /\ sound_timer' = AtLeastZero(sound_timer - elapsed_frames(passed))]_vars

(* C13: the timers run at 60 Hz: with E milliseconds elapsed since the last update  *)
(* the update fires iff E >= 1000/60, and it subtracts the whole number of 1/60 s   *)
(* periods in E, that is (E * 60) div 1000 frames.                                  *)
C13_SixtyHertz ==
    [][\A passed \in TimeSteps :
          (RunCycleStep /\ TimerStep(passed)) =>
              LET frames == (ElapsedMillis(passed) * 60) \div 1000 IN
              /\ time_since_timer_update' =
                     IF frames >= 1 THEN Some(0) ELSE Some(ElapsedMillis(passed))
              /\ delay_timer' = AtLeastZero(delay_timer - frames)
              /\ sound_timer' = AtLeastZero(sound_timer - frames)]_vars

(* C14: at each timer update the audio signal follows the sound timer as the update *)
(* leaves it: tone-on with the remaining frames if it is above 0, tone-off if not.  *)
C14_AudioFollowsDecrementedTimer ==
    [][\A passed \in TimeSteps :
          (RunCycleStep /\ TimerStep(passed) /\ TimerFires(passed)) =>
              audio' = IF sound_timer' > 0 THEN <<"play", sound_timer'>> ELSE <<"stop">>]_vars

-----------------------------------------------------------------------------
(* The keyboard *)

ChipKeys == 0..KEY_F

\* the register exec_wait_until_key_press writes, while control is in its loop
WaitRegister == InsX(instruction[1])

(* C15: Fx0A blocks until a key press: while no key has been observed pressed the   *)
(* program counter does not move and the wait goes on; the key it takes was in the  *)
(* pressed set when it was observed; when the instruction completes Vx holds that   *)
(* key and the program counter has advanced by exactly 2; and while the wait lasts  *)
(* no other instruction is executed and nothing aborts.                             *)
C15_BlockUntilKeyPress ==
    /\ [][CycleOf("exec_wait_until_key_press") =>
             (wait_loop' /\ key_pressed' = None /\ ptr' = ptr /\ Completed)]_vars
    /\ [][(wait_loop /\ key_pressed = None) => (wait_loop' /\ ptr' = ptr)]_vars
    /\ [][(wait_loop /\ key_pressed = None /\ key_pressed' # None) =>
             /\ key_pressed'[1] \in pressed_keys'
             /\ general_registers'[WaitRegister] = key_pressed'[1]]_vars
    /\ [][(wait_loop /\ ~wait_loop') =>
             /\ key_pressed # None
             /\ general_registers'[WaitRegister] = key_pressed[1]
             /\ ptr' = ptr + 2]_vars
    /\ [][wait_loop => (instruction' = instruction /\ Completed)]_vars

\* FA0A at 0x22A has completed with key 1 in V4
C15_Witness ==
    /\ panicked = "" /\ ~wait_loop
    /\ instruction = Some(Op(15, 4, 0, 10))
    /\ ptr = 556
    /\ general_registers[4] = 1

\* this step is an emulation-side query of the keyboard: a key skip, or a turn of the
\* loop of exec_wait_until_key_press
QueryStep ==
    /\ panicked = ""
    /\ \/ wait_loop
       \/ /\ FetchInBounds
          /\ Handler(Fetched) \in {"exec_skip_if_key_pressed", "exec_skip_if_key_not_pressed"}
    /\ key_receiver' = key_receiver
    /\ vars' # vars

\* the key a key skip asks for
AskedKey == right(Vx)

(* C16: when the channel holds a release of key K (the host has reported K pressed  *)
(* and then K released, and the release has replaced the press in the slot), every  *)
(* query observes K as not pressed: K is not in the pressed set after the query,    *)
(* Ex9E on K does not skip, ExA1 on K skips, and Fx0A does not take K.              *)
C16_ReleaseAfterUnreadPress ==
    [][(QueryStep /\ key_receiver # None) =>
          \A K \in ChipKeys \cap key_receiver[1].released :
              /\ K \notin pressed_keys'
              /\ (CycleOf("exec_skip_if_key_pressed") /\ AskedKey = K) => ptr' = ptr + 2
              /\ (CycleOf("exec_skip_if_key_not_pressed") /\ AskedKey = K) => ptr' = ptr + 4
              /\ (wait_loop /\ key_pressed = None) => key_pressed' # Some(K)]_vars

\* the host has pressed and released key 1 before the first query of the program
\* (E09E at 0x210), and that query has not skipped
C16_Witness ==
    /\ panicked = "" /\ instruction = Some(Op(14, 0, 9, 14))
    /\ ptr = 530
    /\ general_registers[0] = 1
    /\ key_receiver = Some([pressed |-> {}, released |-> {1}])
    /\ pressed_keys = {}

(* C17: a query answers by the aggregate of all the deltas the host has sent: after *)
(* it, a key is in the pressed set iff the most recent delta about that key was a   *)
(* press, whether or not earlier deltas were overwritten in the slot unread.        *)
C17_QueryAnswersAggregate ==
    [][QueryStep => \A K \in ChipKeys : (K \in pressed_keys') = (K \in host_keys)]_vars

-----------------------------------------------------------------------------
(* Memory bounds, the program counter and the fatal conditions *)

(* C18: every memory access lies within [0, 4096): the fetch at the program         *)
(* counter, the sprite read of Dxyn, the BCD store and the block store and load     *)
(* abort the emulation when start + length > 4096 and complete when it is <= 4096,  *)
(* and an aborted access leaves every byte of memory as it was.                     *)
C18_MemoryAccessInBounds ==
    /\ [](DOMAIN data \subseteq 0..(MEMORY_SIZE - 1))
    /\ [][(RunCycleStep /\ ptr + 2 > MEMORY_SIZE) => (~Completed /\ data' = data)]_vars
    /\ [][CycleOf("exec_display_sprite_8xN") =>
             (Completed <=> i + fourth_nibble(Fetched) <= MEMORY_SIZE)]_vars
    /\ [][CycleOf("exec_store_vx_as_bsd_in_memory") =>
             (Completed <=> i + 3 <= MEMORY_SIZE)]_vars
    /\ [][CycleOf("exec_store_registers_in_memory") =>
             (Completed <=> i + InsX(Fetched) + 1 <= MEMORY_SIZE)]_vars
    /\ [][CycleOf("exec_load_registers_from_memory") =>
             (Completed <=> i + InsX(Fetched) + 1 <= MEMORY_SIZE)]_vars
    /\ [][~Completed => data' = data]_vars

\* F255 with I = 4094 and V0 = 255, V1 = 7 has aborted; the two bytes in range are
\* as they were
C18_Witness ==
    /\ panicked # "" /\ instruction = Some(Op(15, 2, 5, 5))
    /\ i = 4094
    /\ general_registers[0] = 255 /\ general_registers[1] = 7
    /\ read_bytes(data, 4094, 2) = <<0, 0>>

(* C19: the program counter starts at 0x200 and is at least 0x200 in every          *)
(* reachable state.                                                                 *)
C19_ProgramCounterAtLeastStart ==
    /\ (instruction = None /\ panicked = "") => ptr = PROGRAM_START
    /\ ptr >= PROGRAM_START

\* B100 with V0 = 255 (a jump to 0x1FF) has been refused
C19_Witness ==
    /\ panicked # "" /\ instruction = Some(OpNnn(11, 256))
    /\ general_registers[0] = 255
    /\ ptr = 514

(* C20: a cycle aborts only for one of four reasons: the opcode matches no handler, *)
(* a CALL finds the stack full, a RETURN finds it empty, or a memory read or write  *)
(* reaches outside [0, 4096).                                                       *)
C20_FourFatalConditions ==
    [][(RunCycleStep /\ ~Completed) =>
          \/ ~FetchInBounds
          \/ Handler(Fetched) = "unexpected instruction"
          \/ Handler(Fetched) = "exec_call_subroutine" /\ StackDepth = STACK_SIZE
          \/ Handler(Fetched) = "exec_return_from_subroutine" /\ StackDepth = 0
          \/ /\ Handler(Fetched) = "exec_display_sprite_8xN"
             /\ i + fourth_nibble(Fetched) > MEMORY_SIZE
          \/ /\ Handler(Fetched) = "exec_store_vx_as_bsd_in_memory"
             /\ i + 3 > MEMORY_SIZE
          \/ /\ Handler(Fetched) \in {"exec_store_registers_in_memory",
                                      "exec_load_registers_from_memory"}
             /\ i + InsX(Fetched) + 1 > MEMORY_SIZE]_vars

-----------------------------------------------------------------------------
(* C21: the words that are no opcode of the CHIP-8 table abort                       *)

\* the CHIP-8 opcode table: 00E0, 00EE, 1nnn .. 4xkk, 5xy0, 6xkk, 7xkk, 8xy0 .. 8xy7,
\* 8xyE, 9xy0, Annn .. Dxyn, Ex9E, ExA1, Fx07, Fx0A, Fx15, Fx18, Fx1E, Fx29, Fx33,
\* Fx55, Fx65
IsOpcode(ins) ==
    LET n1 == first_nibble(ins)
        n4 == fourth_nibble(ins)
        kk == InsKk(ins)
    IN  CASE n1 = 0 -> InsNnn(ins) \in {224, 238}
          [] n1 \in {5, 9} -> n4 = 0
          [] n1 = 8 -> n4 \in (0..7) \cup {14}
          [] n1 = 14 -> kk \in {158, 161}
          [] n1 = 15 -> kk \in {7, 10, 21, 24, 30, 41, 51, 85, 101}
          [] OTHER -> TRUE

\* C21: in every cycle the fetched word is routed to a handler exactly when it is an
\* opcode of the CHIP-8 table, and a word that is no opcode of the table aborts the
\* emulation with "unexpected instruction", leaving the general registers, I, the
\* memory, the stack, the program counter and the display unchanged.
C21_NonOpcodesAbort ==
    [][(RunCycleStep /\ FetchInBounds)
          => /\ (Handler(Fetched) = "unexpected instruction") <=> ~IsOpcode(Fetched)
             /\ ~IsOpcode(Fetched)
                  => /\ panicked' = "unexpected instruction"
                     /\ UNCHANGED <<general_registers, i, ptr, stack_pointer, stack,
                                    data, display_content2d>>]_vars

-----------------------------------------------------------------------------
(* C22: Fx29 points I at the glyph of Vx                                            *)

\* the five bytes of the built-in glyph of `digit`
Glyph(digit) == SubSeq(sprites, 5 * digit + 1, 5 * digit + 5)

\* no byte of the font area has been overwritten
FontIntact == \A a \in 0..(Len(sprites) - 1) : MemRead(data, a) = sprites[a + 1]

\* C22: for every value of Vx, Fx29 completes, sets I to 5 * Vx, advances the program
\* counter by 2 and changes no general register, stack slot, memory byte or pixel;
\* for Vx in 0..15, with the font area not overwritten, the five bytes at I are the
\* built-in glyph of the digit Vx.
C22_SpriteAddress ==
    [][(CycleOf("exec_set_i_to_sprite_address") /\ InsKk(Fetched) = 41)
          => /\ Completed
             /\ i' = 5 * Vx
             /\ ptr' = ptr + 2
             /\ UNCHANGED <<general_registers, stack_pointer, stack, data,
                            display_content2d>>
             /\ (Vx <= 15 /\ FontIntact) => read_bytes(data', i', 5) = Glyph(Vx)]_vars

-----------------------------------------------------------------------------
(* C23: Fx55 and Fx65 copy V0..Vx and advance I past the copied bytes               *)

\* the addresses I .. I + x of the instruction fetched in this state
CopiedAddresses == i..(i + InsX(Fetched))

\* every byte outside `addresses` is the same before and after the step
OtherBytesKept(addresses) ==
    \A a \in ((DOMAIN data) \cup (DOMAIN data')) \ addresses :
        MemRead(data', a) = MemRead(data, a)

\* C23: a completed Fx55 leaves memory[I + k] = Vk for k in 0..x, changes no other
\* byte of memory and no register, and leaves I = I_old + x + 1; a completed Fx65
\* leaves Vk = memory[I + k] for k in 0..x, changes no byte of memory and no register
\* above Vx, and leaves I = I_old + x + 1; so an Fx65 that finds at I what an Fx55
\* stored there leaves V0..Vx as they were.
C23_StoreLoadAutoIncrement ==
    [][/\ (CycleOf("exec_store_registers_in_memory") /\ Completed)
            => /\ \A k \in 0..InsX(Fetched) :
                      MemRead(data', i + k) = general_registers[k]
               /\ OtherBytesKept(CopiedAddresses)
               /\ general_registers' = general_registers
               /\ i' = i + InsX(Fetched) + 1
       /\ (CycleOf("exec_load_registers_from_memory") /\ Completed)
            => /\ \A k \in 0..InsX(Fetched) :
                      general_registers'[k] = MemRead(data, i + k)
               /\ \A k \in (InsX(Fetched) + 1)..15 :
                      general_registers'[k] = general_registers[k]
               /\ data' = data
               /\ i' = i + InsX(Fetched) + 1
               /\ (\A k \in 0..InsX(Fetched) : MemRead(data, i + k) = general_registers[k])
                      => general_registers' = general_registers]_vars

\* the round trip of V0..V1 has completed: memory and registers hold 255 and 7, and I
\* has passed them
C23_Witness ==
    /\ panicked = ""
    /\ instruction = Some(Op(15, 1, 6, 5))
    /\ ptr = 526
    /\ i = 770
    /\ read_bytes(data, 768, 2) = <<255, 7>>
    /\ general_registers[0] = 255 /\ general_registers[1] = 7

-----------------------------------------------------------------------------
(* C24: the additions that set no flag                                              *)

\* every general register but `x` is the same before and after the step
OtherRegistersKept(x) ==
    \A r \in 0..15 : r # x => general_registers'[r] = general_registers[r]

\* C24: 7xkk always completes; with x # 0xF it leaves Vx = (Vx + kk) mod 256 and VF
\* as it was, also when the sum exceeds 255; it changes no other general register,
\* nor I, a byte of memory, the stack or a pixel, and advances the program counter by
\* 2.  Fx1E changes no general register (VF included), byte of memory, stack slot or
\* pixel; it completes whenever I + Vx fits 16 bits, with I increased by Vx, and a
\* completed Fx1E has advanced the program counter by 2.
C24_AddsWithoutFlag ==
    [][/\ CycleOf("exec_add_kk")
            => /\ Completed
               /\ InsX(Fetched) # CARRY_REG_ADDRESS
                    => /\ general_registers'[InsX(Fetched)] = (Vx + InsKk(Fetched)) % 256
                       /\ VF' = VF
               /\ OtherRegistersKept(InsX(Fetched))
               /\ UNCHANGED <<i, stack_pointer, stack, data, display_content2d>>
               /\ ptr' = ptr + 2
       /\ CycleOf("exec_add_vx_to_i")
            => /\ UNCHANGED <<general_registers, stack_pointer, stack, data,
                              display_content2d>>
               /\ i + Vx <= 65535 => (Completed /\ i' = i + Vx)
               /\ Completed => ptr' = ptr + 2]_vars

\* 7xkk has overflowed (255 + 1) with VF = 1: V0 is 0 and VF is still 1
C24_Witness ==
    /\ panicked = ""
    /\ instruction = Some(OpXkk(7, 0, 1))
    /\ ptr = 518
    /\ general_registers[0] = 0
    /\ general_registers[CARRY_REG_ADDRESS] = 1

-----------------------------------------------------------------------------
(* C25: how the program counter moves                                               *)

\* the handlers that skip, with the condition each tests; a key skip asks the keyboard,
\* which answers from its keys after the query
SkipHandlers ==
    {"exec_skip_if_equal_kk", "exec_skip_if_not_equal_kk", "exec_skip_if_equal_register",
     "exec_skip_if_not_equal_register", "exec_skip_if_key_pressed",
     "exec_skip_if_key_not_pressed"}
SkipCondition(name) ==
    CASE name = "exec_skip_if_equal_kk" -> Vx = InsKk(Fetched)
      [] name = "exec_skip_if_not_equal_kk" -> Vx # InsKk(Fetched)
      [] name = "exec_skip_if_equal_register" -> Vx = Vy
      [] name = "exec_skip_if_not_equal_register" -> Vx # Vy
      [] name = "exec_skip_if_key_pressed" -> (Vx % 16) \in pressed_keys'
      [] name = "exec_skip_if_key_not_pressed" -> (Vx % 16) \notin pressed_keys'

\* a cycle that ran a handler to its end: it did not panic and is not waiting in Fx0A
CompletedCycle == RunCycleStep /\ FetchInBounds /\ Completed /\ ~wait_loop'

\* C25: a completed instruction moves the program counter by 2, by 4 or to an explicit
\* target: a skip (3xkk, 4xkk, 5xy_, 9xy_, Ex9E, ExA1) advances it by 4 exactly when
\* its condition holds and by 2 otherwise, and changes no general register; 1nnn and
\* 2nnn set it to nnn, Bnnn to nnn + V0, 00EE to the address on top of the stack, with
\* no further +2; every other completed instruction, Fx0A when its wait ends included,
\* advances it by exactly 2.
C25_ProgramCounterAdvance ==
    [][/\ CompletedCycle
            => LET name == Handler(Fetched) IN
               CASE name \in SkipHandlers ->
                      /\ ptr' = ptr + (IF SkipCondition(name) THEN 4 ELSE 2)
                      /\ general_registers' = general_registers
                 [] name \in {"exec_jump", "exec_call_subroutine"} ->
                      ptr' = InsNnn(Fetched)
                 [] name = "exec_move_program_counter" ->
                      ptr' = InsNnn(Fetched) + general_registers[0]
                 [] name = "exec_return_from_subroutine" ->
                      stack_pointer # None /\ ptr' = stack[stack_pointer[1]]
                 [] OTHER -> ptr' = ptr + 2
       /\ (panicked = "" /\ wait_loop /\ ~wait_loop') => ptr' = ptr + 2
       /\ (panicked = "" /\ wait_loop /\ wait_loop') => ptr' = ptr]_vars

\* 5xy0 found V0 = V1 = 1 and skipped from 0x204 to 0x208
C25_Witness ==
    /\ panicked = ""
    /\ instruction = Some(Op(5, 0, 1, 0))
    /\ general_registers[0] = 1 /\ general_registers[1] = 1
    /\ ptr = 520

-----------------------------------------------------------------------------
(* C26: sprites are clipped at the right and bottom edges                           *)

Screen == (0..(SCREEN_HEIGHT - 1)) \X (0..(SCREEN_WIDTH - 1))

\* the 8 x rows rectangle whose top-left corner is the normalised origin of the draw
\* fetched in this state, on and off the screen
SpriteRectangle ==
    LET top == Vy % SCREEN_HEIGHT
        leftmost == Vx % SCREEN_WIDTH
    IN  (top..(top + fourth_nibble(Fetched) - 1))
            \X (leftmost..(leftmost + SPRITE_WIDTH - 1))

\* C26: a draw at (Vx, Vy) has the effect of the draw at (Vx mod 64, Vy mod 32); no
\* pixel outside the 8 x rows rectangle at that origin changes, so a pixel of the
\* sprite whose column would be >= 64 or whose row would be >= 32 is not wrapped to
\* the other edge; the display stays within 64 x 32; and a collision is reported only
\* for a lit pixel of the screen inside the rectangle that the draw turned off.
C26_ClipAfterNormalisation ==
    [][DrawStep
          => LET normalised == draw_sprite(display_content2d, DrawnSprite,
                                           Vx % SCREEN_WIDTH, Vy % SCREEN_HEIGHT)
             IN  /\ display_content2d' = normalised.display
                 /\ VF' = CollisionFlag(normalised.pixel_erased)
                 /\ display_content2d' \ SpriteRectangle
                        = display_content2d \ SpriteRectangle
                 /\ display_content2d' \subseteq Screen
                 /\ VF' = 1 => \E cell \in SpriteRectangle \cap Screen :
                                   cell \in display_content2d
                                   /\ cell \notin display_content2d']_vars

\* a row of eight lit bits drawn at (63, 45) lights the one pixel in column 63 of row
\* 13 and nothing in column 0
C26_Witness ==
    /\ panicked = ""
    /\ instruction = Some(Op(13, 0, 1, 1))
    /\ general_registers[0] = 63 /\ general_registers[1] = 45
    /\ display_content2d = {<<13, 63>>}

-----------------------------------------------------------------------------
(* C27: the timers run while Fx0A waits                                             *)

\* C27: while Fx0A waits for a key with a timer that is not zero, every step of the
\* emulation is a cycle that performs the timer update of run_cycle for the time that
\* has passed: once a frame has elapsed the timers are decreased, the audio is
\* signalled and the time of the last update is reset.
C27_TimersRunWhileWaiting ==
    [][(/\ panicked = "" /\ wait_loop /\ wait_loop'
        /\ key_receiver' = key_receiver
        /\ (delay_timer > 0 \/ sound_timer > 0))
          => \E passed \in TimeSteps : TimerStep(passed)]_vars

-----------------------------------------------------------------------------
(* C28: OR, AND and XOR reset VF                                                    *)

\* the bitwise AND of two bytes, bit by bit; OR and XOR follow from it
ByteAnd(a, b) ==
    LET both(weight) == ((a \div weight) % 2) * ((b \div weight) % 2) * weight
    IN  both(1) + both(2) + both(4) + both(8) + both(16) + both(32) + both(64) + both(128)
ByteOr(a, b) == a + b - ByteAnd(a, b)
ByteXor(a, b) == a + b - 2 * ByteAnd(a, b)

\* the result the logic instruction `name` is to leave in Vx
LogicResult(name) ==
    CASE name = "exec_or" -> ByteOr(Vx, Vy)
      [] name = "exec_and" -> ByteAnd(Vx, Vy)
      [] name = "exec_xor" -> ByteXor(Vx, Vy)

\* C28: after 8xy1 (OR), 8xy2 (AND) and 8xy3 (XOR), for every x and y and every value
\* of the registers, VF is 0, also when x or y is 0xF; for x # 0xF, Vx holds the
\* bitwise result of the old Vx and Vy; and no register other than Vx and VF changes.
C28_LogicResetsFlag ==
    [][(/\ FetchInBounds /\ first_nibble(Fetched) = 8
        /\ Handler(Fetched) \in {"exec_or", "exec_and", "exec_xor"}
        /\ RunCycleStep /\ Completed)
             => /\ VF' = 0
                /\ InsX(Fetched) # CARRY_REG_ADDRESS
                     => general_registers'[InsX(Fetched)] = LogicResult(Handler(Fetched))
                /\ \A r \in 0..15 :
                      r \notin {InsX(Fetched), CARRY_REG_ADDRESS}
                         => general_registers'[r] = general_registers[r]
                /\ UNCHANGED <<i, stack_pointer, stack>>]_vars

\* 8FF1 with VF = 255: the OR of VF with itself is 255, and VF is 0 afterwards
C28_Witness ==
    /\ panicked = "" /\ instruction = Some(Op(8, 15, 15, 1))
    /\ ptr = 518
    /\ read_bytes(data, 512, 4) = OpXkk(6, 15, 255) \o OpXkk(6, 15, 255)
    /\ general_registers[CARRY_REG_ADDRESS] = 0

-----------------------------------------------------------------------------
(* C29: Fx0A completes when the key it took is released                             *)

\* control is in the loop of Fx0A and a key has been taken
KeyTaken == panicked = "" /\ wait_loop /\ key_pressed # None

-----------------------------------------------------------------------------
(* The decoder on its own: every 16-bit word, as the two bytes at 0x200, is       *)
(* decoded by Instruction::new.                                                   *)

InitDecode ==
    /\ general_registers = [r \in 0..15 |-> 0]
    /\ i = 0
    /\ delay_timer = 0
    /\ sound_timer = 0
    /\ ptr = PROGRAM_START
    /\ stack_pointer = None
    /\ stack = [s \in 0..(STACK_SIZE - 1) |-> 0]
    /\ \E high \in U8, low \in U8 : data = load_program(MemoryNew, <<high, low>>)
    /\ display_content2d = {}
    /\ pressed_keys = {}
    /\ key_receiver = None
    /\ host_keys = {}
    /\ time_since_timer_update = None
    /\ audio = <<>>
    /\ instruction = None
    /\ wait_loop = FALSE
    /\ key_pressed = None
    /\ panicked = ""
    /\ call_sites = <<>>

decode_instruction ==
    /\ instruction = None
    /\ instruction' = Some(Fetched)
    /\ UNCHANGED <<general_registers, i, delay_timer, sound_timer, ptr, stack_pointer,
                   stack, data, display_content2d, pressed_keys, key_receiver, host_keys,
                   time_since_timer_update, audio, wait_loop, key_pressed, panicked,
                   call_sites>>

NextDecode == decode_instruction

SpecDecode == InitDecode /\ [][NextDecode]_vars

\* the 16-bit word at 0x200, high byte first
WordAtStart == MemRead(data, PROGRAM_START) * 256 + MemRead(data, PROGRAM_START + 1)

(* C10: decoding is total and exact: for every 16-bit word w, nnn = w & 0x0FFF,     *)
(* kk = w & 0x00FF, x = (w >> 8) & 0xF, y = (w >> 4) & 0xF, n = w & 0xF and the     *)
(* first nibble is (w >> 12) & 0xF.                                                 *)
C10_DecodeFields ==
    instruction # None =>
        /\ InsNnn(instruction[1]) = WordAtStart % 4096
        /\ InsKk(instruction[1]) = WordAtStart % 256
        /\ InsX(instruction[1]) = (WordAtStart \div 256) % 16
        /\ InsY(instruction[1]) = (WordAtStart \div 16) % 16
        /\ fourth_nibble(instruction[1]) = WordAtStart % 16
        /\ first_nibble(instruction[1]) = (WordAtStart \div 4096) % 16
        /\ nibbles_lo(instruction[1]) \in (0..15) \X (0..15) \X (0..15) \X (0..15)

\* 0xABCD has been decoded: nnn = 0xBCD, kk = 0xCD, x = 0xB, y = 0xC, n = 0xD
C10_Witness ==
    /\ instruction # None
    /\ WordAtStart = 43981
    /\ InsNnn(instruction[1]) = 3021
    /\ nibbles_lo(instruction[1]) = <<10, 11, 12, 13>>


====
